---------------------------- MODULE Spec2Model ----------------------------
(***************************************************************************)
(* Page-property value models and the pagination envelope of               *)
(* pydantic_api.notion.models.                                             *)
(*                                                                         *)
(* The classes of page_property.py and api/base.py are pydantic models:    *)
(* each class is a schema (its fields, in declaration order), and          *)
(* validation, construction and serialisation are pydantic's, driven by    *)
(* that schema.  Here a class is a schema value carrying the fields the    *)
(* source declares, and Validate / ModelDump are the schema-driven         *)
(* engine.  No class of the source sets a model_config, so the engine is   *)
(* pydantic's default one: lax (coercing) validation, unknown keys         *)
(* ignored, fields assignable without validation.                          *)
(*                                                                         *)
(* Numbers are held in tenths (35 is 3.5), so that a float with a          *)
(* fractional part and an integer can both be told apart and compared.     *)
(***************************************************************************)
EXTENDS Integers, Sequences, FiniteSets, TLC

VARIABLES
    input,      \* the operation the caller starts with, and its arguments
    op,         \* the operation that ran last
    res,        \* what the first operation returned: an object or an error
    held,       \* the object the caller holds, as it is now
    wire,       \* the JSON last encoded from the held object
    back,       \* what decoding `wire` returned
    mutated     \* whether the holder assigned a field or changed a list in place

vars == <<input, op, res, held, wire, back, mutated>>

(***************************************************************************)
(* Bounds of the model.                                                    *)
(***************************************************************************)
\* longest `results` list of a pagination envelope
MaxResults == 3
\* longest list of identifiers handed to RelationProperty.create
MaxRelation == 2

(***************************************************************************)
(* Values.  JSON values and Python values share one universe: null, bool,  *)
(* num, str, arr and obj are what JSON carries; datetime, uuid, url and    *)
(* model exist only after validation.                                      *)
(***************************************************************************)
JNull == [k |-> "null"]
JBool(b) == [k |-> "bool", b |-> b]
JNum(n) == [k |-> "num", n |-> n]
JStr(s) == [k |-> "str", s |-> s]
JArr(a) == [k |-> "arr", a |-> a]
JObj(o) == [k |-> "obj", o |-> o]
PyDatetime(t, tz) == [k |-> "datetime", t |-> t, tz |-> tz]
PyUUID(u) == [k |-> "uuid", u |-> u]
PyUrl(u) == [k |-> "url", u |-> u]
PyModel(cls, f) == [k |-> "model", cls |-> cls, f |-> f]

\* the value under `key` of a JSON object, when the key is present
Has(x, key) == x.k = "obj" /\ key \in DOMAIN x.o
Get(x, key) == x.o[key]

\* the outcome of a validation: a value, or the type of the first error
Ok(v) == [ok |-> TRUE, v |-> v]
Err(e) == [ok |-> FALSE, err |-> e]

(***************************************************************************)
(* String formats.  TLA+ strings are atoms, so each format is the table    *)
(* of the strings the model uses with what they parse to; formatting       *)
(* gives the canonical string of a value.                                  *)
(***************************************************************************)
\* ISO 8601 strings: instant in tenths of a second since the epoch, and
\* whether the string carries an offset ("utc") or none ("naive")
DatetimeStrings ==
    [s \in {"1970-01-01T00:00:01Z", "1970-01-01T00:00:01+00:00",
            "1970-01-01T00:00:02Z", "1970-01-01T00:00:03Z",
            "1970-01-01T00:00:02"} |->
        CASE s = "1970-01-01T00:00:01Z" -> PyDatetime(10, "utc")
          [] s = "1970-01-01T00:00:01+00:00" -> PyDatetime(10, "utc")
          [] s = "1970-01-01T00:00:02Z" -> PyDatetime(20, "utc")
          [] s = "1970-01-01T00:00:03Z" -> PyDatetime(30, "utc")
          [] s = "1970-01-01T00:00:02" -> PyDatetime(20, "naive")]

\* datetime.isoformat as pydantic emits it in JSON: "Z" for UTC
FormatDatetime(d) ==
    CASE d.tz = "utc" /\ d.t = 10 -> "1970-01-01T00:00:01Z"
      [] d.tz = "utc" /\ d.t = 20 -> "1970-01-01T00:00:02Z"
      [] d.tz = "utc" /\ d.t = 30 -> "1970-01-01T00:00:03Z"
      [] d.tz = "naive" /\ d.t = 20 -> "1970-01-01T00:00:02"

\* UUID strings: hyphenated, bare hex and upper case all parse
UUIDStrings ==
    [s \in {"0e5235bf-86aa-4efb-93aa-772cce7eab71",
            "0e5235bf86aa4efb93aa772cce7eab71",
            "0E5235BF-86AA-4EFB-93AA-772CCE7EAB71",
            "6f9619ff-8b86-4011-b42d-00c04fc964ff"} |->
        IF s = "6f9619ff-8b86-4011-b42d-00c04fc964ff" THEN 2 ELSE 1]

\* str(uuid): lower case, hyphenated
FormatUUID(u) ==
    IF u = 1 THEN "0e5235bf-86aa-4efb-93aa-772cce7eab71"
    ELSE "6f9619ff-8b86-4011-b42d-00c04fc964ff"

\* http(s) URLs, normalised: an empty path becomes "/"
HttpUrlStrings ==
    [s \in {"http://example.com", "http://example.com/",
            "https://notion.so/p"} |->
        IF s = "https://notion.so/p" THEN "https://notion.so/p"
        ELSE "http://example.com/"]

\* e-mail addresses, normalised: the domain is lower-cased
EmailStrings ==
    [s \in {"a@example.com", "a@EXAMPLE.COM"} |-> "a@example.com"]

\* the strings lax validation reads as a bool
BoolStrings ==
    [s \in {"true", "yes", "on", "1", "false", "no", "off", "0"} |->
        s \in {"true", "yes", "on", "1"}]

\* the strings lax validation reads as a number (in tenths)
NumberStrings ==
    [s \in {"3.5", "7"} |-> IF s = "3.5" THEN 35 ELSE 70]

(***************************************************************************)
(* Schemas: a field type of the source is one of these.                    *)
(***************************************************************************)
BoolT == [kind |-> "bool"]
FloatT == [kind |-> "float"]
IntT == [kind |-> "int"]
StrT == [kind |-> "str"]
DatetimeT == [kind |-> "datetime"]
UUIDT == [kind |-> "uuid"]
HttpUrlT == [kind |-> "url"]
EmailStrT == [kind |-> "email"]
LiteralT(values) == [kind |-> "literal", values |-> values]
OptionalT(item) == [kind |-> "optional", item |-> item]
ListT(item) == [kind |-> "list", item |-> item]
ModelT(cls, fields) == [kind |-> "model", cls |-> cls, fields |-> fields]
\* Annotated[Union[...], Field(discriminator="type")]
UnionT(members) == [kind |-> "union", discriminator |-> "type", members |-> members]

\* name: type = Field(...)      a required field
Required(name, schema) ==
    [name |-> name, schema |-> schema, required |-> TRUE, default |-> JNull]
\* name: type = default
Default(name, schema, default) ==
    [name |-> name, schema |-> schema, required |-> FALSE, default |-> default]

\* class Sub(Base): the fields of Base in their order, a redeclared field
\* taking the subclass's declaration, then the fields Sub adds
Subclass(base, own) ==
    LET ownNames == {own[i].name : i \in 1..Len(own)}
        baseNames == {base[i].name : i \in 1..Len(base)}
        Over(f) == IF f.name \in ownNames
                   THEN own[CHOOSE i \in 1..Len(own) : own[i].name = f.name]
                   ELSE f
        Added == SelectSeq(own, LAMBDA f : f.name \notin baseNames)
    IN  [i \in 1..Len(base) |-> Over(base[i])] \o Added

(***************************************************************************)
(* Validation of the scalar types, as pydantic's lax mode does it.  The    *)
(* error names are the `type` of pydantic's error.                         *)
(***************************************************************************)
\* a variant of ValidateBool that takes the value's truthiness, bool(x)
ValidateBool_truthy(x) ==
    CASE x.k = "bool" -> Ok(x)
      [] x.k = "num" -> Ok(JBool(x.n # 0))
      [] x.k = "str" -> Ok(JBool(x.s # ""))
      [] OTHER -> Err("bool_type")

\* bool: a bool; the numbers 0 and 1; the strings of BoolStrings
ValidateBool(x) ==
    CASE x.k = "bool" -> Ok(x)
      [] x.k = "num" -> IF x.n = 0 THEN Ok(JBool(FALSE))
                        ELSE IF x.n = 10 THEN Ok(JBool(TRUE))
                        ELSE Err("bool_parsing")
      [] x.k = "str" -> IF x.s \in DOMAIN BoolStrings
                        THEN Ok(JBool(BoolStrings[x.s]))
                        ELSE Err("bool_parsing")
      [] OTHER -> Err("bool_type")

\* float: a number; a numeric string
ValidateFloat(x) ==
    CASE x.k = "num" -> Ok(x)
      [] x.k = "str" -> IF x.s \in DOMAIN NumberStrings
                        THEN Ok(JNum(NumberStrings[x.s]))
                        ELSE Err("float_parsing")
      [] OTHER -> Err("float_type")

\* int: a number with no fractional part; such a numeric string
ValidateInt(x) ==
    CASE x.k = "num" -> IF x.n % 10 = 0 THEN Ok(x) ELSE Err("int_from_float")
      [] x.k = "str" -> IF x.s \in DOMAIN NumberStrings /\ NumberStrings[x.s] % 10 = 0
                        THEN Ok(JNum(NumberStrings[x.s]))
                        ELSE Err("int_parsing")
      [] OTHER -> Err("int_type")

\* str: a string and nothing else
ValidateStr(x) ==
    IF x.k = "str" THEN Ok(x) ELSE Err("string_type")

\* datetime: a datetime; an ISO 8601 string; a number, read as a unix
\* timestamp in UTC
ValidateDatetime(x) ==
    CASE x.k = "datetime" -> Ok(x)
      [] x.k = "str" -> IF x.s \in DOMAIN DatetimeStrings
                        THEN Ok(DatetimeStrings[x.s])
                        ELSE Err("datetime_from_date_parsing")
      [] x.k = "num" -> Ok(PyDatetime(x.n, "utc"))
      [] OTHER -> Err("datetime_type")

\* UUID: a UUID; a string in one of the UUID formats
ValidateUUID(x) ==
    CASE x.k = "uuid" -> Ok(x)
      [] x.k = "str" -> IF x.s \in DOMAIN UUIDStrings
                        THEN Ok(PyUUID(UUIDStrings[x.s]))
                        ELSE Err("uuid_parsing")
      [] OTHER -> Err("uuid_type")

\* HttpUrl: a URL; a string that parses as an http(s) URL
ValidateHttpUrl(x) ==
    CASE x.k = "url" -> Ok(x)
      [] x.k = "str" -> IF x.s \in DOMAIN HttpUrlStrings
                        THEN Ok(PyUrl(HttpUrlStrings[x.s]))
                        ELSE Err("url_parsing")
      [] OTHER -> Err("url_type")

\* EmailStr: a string that is an e-mail address, kept as a (normalised) str
ValidateEmailStr(x) ==
    IF x.k # "str" THEN Err("string_type")
    ELSE IF x.s \in DOMAIN EmailStrings THEN Ok(JStr(EmailStrings[x.s]))
    ELSE Err("value_error")

\* Literal[...]: one of the listed strings, exactly
ValidateLiteral(values, x) ==
    IF x.k = "str" /\ x.s \in values THEN Ok(x) ELSE Err("literal_error")

(***************************************************************************)
(* The schema-driven engine.                                               *)
(***************************************************************************)
\* the tag of a union member: the one value of its Literal `type` field
TagOf(member) ==
    LET i == CHOOSE i \in 1..Len(member.fields) : member.fields[i].name = "type"
    IN  CHOOSE t \in member.fields[i].schema.values : TRUE

RECURSIVE Validate(_, _)

\* a variant of ValidateList that leaves out the items that fail
ValidateList_skipping(item, x) ==
    IF x.k # "arr" THEN Err("list_type")
    ELSE LET rs == [i \in 1..Len(x.a) |-> Validate(item, x.a[i])]
             good == SelectSeq(rs, LAMBDA r : r.ok)
         IN  Ok(JArr([i \in 1..Len(good) |-> good[i].v]))

\* a list: every item validated, in order; the first item that fails
\* fails the list
ValidateList(item, x) ==
    IF x.k # "arr" THEN Err("list_type")
    ELSE LET rs == [i \in 1..Len(x.a) |-> Validate(item, x.a[i])]
             bad == {i \in 1..Len(x.a) : ~rs[i].ok}
         IN  IF bad # {}
             THEN Err(rs[CHOOSE i \in bad : \A j \in bad : i <= j].err)
             ELSE Ok(JArr([i \in 1..Len(x.a) |-> rs[i].v]))

\* a model: an instance of the class passes as it is; a dict is read field
\* by field (a key that is no field is ignored), a missing field taking its
\* default or, when required, failing; anything else is no model
ValidateModel(s, x) ==
    IF x.k = "model" THEN (IF x.cls = s.cls THEN Ok(x) ELSE Err("model_type"))
    ELSE IF x.k # "obj" THEN Err("model_type")
    ELSE LET n == Len(s.fields)
             rs == [i \in 1..n |->
                      IF Has(x, s.fields[i].name)
                      THEN Validate(s.fields[i].schema, Get(x, s.fields[i].name))
                      ELSE IF s.fields[i].required THEN Err("missing")
                      ELSE Ok(s.fields[i].default)]
             bad == {i \in 1..n : ~rs[i].ok}
             names == {s.fields[i].name : i \in 1..n}
             At(name) == CHOOSE i \in 1..n : s.fields[i].name = name
         IN  IF bad # {}
             THEN Err(rs[CHOOSE i \in bad : \A j \in bad : i <= j].err)
             ELSE Ok(PyModel(s.cls, [name \in names |-> rs[At(name)].v]))

\* a variant of ValidateUnion without the discriminator: the members are
\* tried from left to right and the first that validates wins
ValidateUnion_left_to_right(s, x) ==
    IF x.k = "model"
    THEN (IF \E i \in 1..Len(s.members) : s.members[i].cls = x.cls
          THEN Ok(x) ELSE Err("model_type"))
    ELSE LET rs == [i \in 1..Len(s.members) |-> ValidateModel(s.members[i], x)]
             good == {i \in 1..Len(s.members) : rs[i].ok}
         IN  IF good = {} THEN rs[1]
             ELSE rs[CHOOSE i \in good : \A j \in good : i <= j]

\* a discriminated union: the value under the discriminator key selects the
\* one member whose tag it equals, and only that member validates the input
ValidateUnion(s, x) ==
    IF x.k = "model"
    THEN (IF \E i \in 1..Len(s.members) : s.members[i].cls = x.cls
          THEN Ok(x) ELSE Err("union_tag_invalid"))
    ELSE IF x.k # "obj" THEN Err("model_attributes_type")
    ELSE IF ~Has(x, s.discriminator) THEN Err("union_tag_not_found")
    ELSE LET tag == Get(x, s.discriminator)
             hit == {i \in 1..Len(s.members) :
                        tag.k = "str" /\ TagOf(s.members[i]) = tag.s}
         IN  IF hit = {} THEN Err("union_tag_invalid")
             ELSE ValidateModel(s.members[CHOOSE i \in hit : TRUE], x)

Validate(s, x) ==
    CASE s.kind = "bool" -> ValidateBool(x)
      [] s.kind = "float" -> ValidateFloat(x)
      [] s.kind = "int" -> ValidateInt(x)
      [] s.kind = "str" -> ValidateStr(x)
      [] s.kind = "datetime" -> ValidateDatetime(x)
      [] s.kind = "uuid" -> ValidateUUID(x)
      [] s.kind = "url" -> ValidateHttpUrl(x)
      [] s.kind = "email" -> ValidateEmailStr(x)
      [] s.kind = "literal" -> ValidateLiteral(s.values, x)
      [] s.kind = "optional" -> IF x.k = "null" THEN Ok(JNull)
                                ELSE Validate(s.item, x)
      [] s.kind = "list" -> ValidateList(s.item, x)
      [] s.kind = "model" -> ValidateModel(s, x)
      [] s.kind = "union" -> ValidateUnion(s, x)

\* a variant of ModelDump that leaves the discriminator out, as a dump
\* with exclude_defaults would
RECURSIVE ModelDump_without_tag(_)
ModelDump_without_tag(v) ==
    CASE v.k = "model" ->
            JObj([name \in DOMAIN v.f \ {"type"} |-> ModelDump_without_tag(v.f[name])])
      [] v.k = "arr" -> JArr([i \in 1..Len(v.a) |-> ModelDump_without_tag(v.a[i])])
      [] v.k = "datetime" -> JStr(FormatDatetime(v))
      [] v.k = "uuid" -> JStr(FormatUUID(v.u))
      [] v.k = "url" -> JStr(v.u)
      [] OTHER -> v

\* model_dump(mode="json"): every field under its name, the discriminator
\* like any other field; datetimes, UUIDs and URLs as strings
RECURSIVE ModelDump(_)
ModelDump(v) ==
    CASE v.k = "model" -> JObj([name \in DOMAIN v.f |-> ModelDump(v.f[name])])
      [] v.k = "arr" -> JArr([i \in 1..Len(v.a) |-> ModelDump(v.a[i])])
      [] v.k = "datetime" -> JStr(FormatDatetime(v))
      [] v.k = "uuid" -> JStr(FormatUUID(v.u))
      [] v.k = "url" -> JStr(v.u)
      [] OTHER -> v

(***************************************************************************)
(* Types the catalogue imports from modules of the package that are not    *)
(* part of the sources at hand (..user, ..file, ..block, .common): each    *)
(* is given the smallest shape the specification describes.                *)
(***************************************************************************)
PagePropertyTypeLiteral ==
    {"checkbox", "created_by", "created_time", "date", "email", "files",
     "formula", "last_edited_by", "last_edited_time", "multi_select",
     "number", "people", "phone_number", "relation", "rollup", "rich_text",
     "select", "status", "title", "url", "unique_id", "verification"}
FormulaValueTypeLiteral == {"boolean", "date", "number", "string"}
RollupTypeLiteral == {"date", "number", "array", "incomplete", "unsupported"}
RollupFunctionLiteral == {"sum", "count"}
VerificationStateLiteral == {"verified", "unverified"}
ColorLiteral == {"default", "blue", "red"}

\* a user reference
UserObject ==
    ModelT("UserObject",
        << Default("object", LiteralT({"user"}), JStr("user")),
           Required("id", UUIDT) >>)

\* a file reference: a name and an external URL
ExternalFile == ModelT("ExternalFile", << Required("url", HttpUrlT) >>)
FileObject ==
    ModelT("FileObject",
        << Required("name", StrT),
           Default("external", OptionalT(ExternalFile), JNull) >>)

\* a rich-text span of kind "text": {type: "text", text: {content: ...}}
TextContent == ModelT("TextContent", << Required("content", StrT) >>)
RichTextObject ==
    ModelT("RichTextObject",
        << Default("type", LiteralT({"text"}), JStr("text")),
           Required("text", TextContent) >>)

\* a select / status option: id (server-assigned), name, color
SelectOption ==
    ModelT("SelectOption",
        << Default("id", OptionalT(StrT), JNull),
           Required("name", StrT),
           Default("color", OptionalT(LiteralT(ColorLiteral)), JNull) >>)
StatusOption ==
    ModelT("StatusOption",
        << Default("id", OptionalT(StrT), JNull),
           Required("name", StrT),
           Default("color", OptionalT(LiteralT(ColorLiteral)), JNull) >>)

(***************************************************************************)
(* The catalogue of page_property.py, class by class.                      *)
(***************************************************************************)
BasePageProperty ==
    ModelT("BasePageProperty",
        << Default("id", OptionalT(StrT), JNull),
           Required("type", LiteralT(PagePropertyTypeLiteral)) >>)

\* a variant of TypeTag that keeps the base class's literal: the default
\* is the tag, but any property type is accepted
TypeTag_wide(tag) == Default("type", LiteralT(PagePropertyTypeLiteral), JStr(tag))

\* type: Literal[tag] = tag
TypeTag(tag) == Default("type", LiteralT({tag}), JStr(tag))

\* class <cls>(BasePageProperty): type: Literal[tag] = tag, then its fields
PropertyClass(cls, tag, own) ==
    ModelT(cls, Subclass(BasePageProperty.fields, << TypeTag(tag) >> \o own))

CheckboxProperty ==
    PropertyClass("CheckboxProperty", "checkbox", << Required("checkbox", BoolT) >>)

CreatedByProperty ==
    PropertyClass("CreatedByProperty", "created_by",
                  << Required("created_by", UserObject) >>)

CreatedTimeProperty ==
    PropertyClass("CreatedTimeProperty", "created_time",
                  << Required("created_time", DatetimeT) >>)

DateValue ==
    ModelT("DateValue",
        << Required("start", DatetimeT),
           Default("end", OptionalT(DatetimeT), JNull),
           Default("time_zone", OptionalT(StrT), JNull) >>)

DateProperty ==
    PropertyClass("DateProperty", "date", << Required("date", DateValue) >>)

EmailProperty ==
    PropertyClass("EmailProperty", "email", << Required("email", EmailStrT) >>)

FilesProperty ==
    PropertyClass("FilesProperty", "files", << Required("files", ListT(FileObject)) >>)

BaseFormulaData ==
    ModelT("_BaseFormulaData",
        << Required("type", LiteralT(FormulaValueTypeLiteral)) >>)

BooleanFormulaData ==
    ModelT("BooleanFormulaData",
        Subclass(BaseFormulaData.fields,
                 << TypeTag("boolean"), Required("boolean", BoolT) >>))

DateFormulaData ==
    ModelT("DateFormulaData",
        Subclass(BaseFormulaData.fields,
                 << TypeTag("date"), Required("date", DateValue) >>))

NumberFormulaData ==
    ModelT("NumberFormulaData",
        Subclass(BaseFormulaData.fields,
                 << TypeTag("number"), Required("number", FloatT) >>))

StringFormulaData ==
    ModelT("StringFormulaData",
        Subclass(BaseFormulaData.fields,
                 << TypeTag("string"), Required("string", StrT) >>))

FormulaData ==
    UnionT(<< BooleanFormulaData, DateFormulaData, NumberFormulaData,
              StringFormulaData >>)

FormulaProperty ==
    PropertyClass("FormulaProperty", "formula", << Required("formula", FormulaData) >>)

LastEditedByProperty ==
    PropertyClass("LastEditedByProperty", "last_edited_by",
                  << Required("last_edited_by", UserObject) >>)

LastEditedTimeProperty ==
    PropertyClass("LastEditedTimeProperty", "last_edited_time",
                  << Required("last_edited_time", DatetimeT) >>)

MultiSelectProperty ==
    PropertyClass("MultiSelectProperty", "multi_select",
                  << Required("multi_select", ListT(SelectOption)) >>)

NumberProperty ==
    PropertyClass("NumberProperty", "number", << Required("number", FloatT) >>)

PeopleProperty ==
    PropertyClass("PeopleProperty", "people", << Required("people", ListT(UserObject)) >>)

PhoneNumberProperty ==
    PropertyClass("PhoneNumberProperty", "phone_number",
                  << Default("phone_number", OptionalT(StrT), JNull) >>)

PageReference == ModelT("PageReference", << Required("id", UUIDT) >>)

RelationProperty ==
    PropertyClass("RelationProperty", "relation",
                  << Required("relation", ListT(PageReference)),
                     Default("has_more", OptionalT(BoolT), JNull) >>)

BaseRollupData ==
    ModelT("BaseRollupData",
        << Required("type", LiteralT(RollupTypeLiteral)),
           Required("function", LiteralT(RollupFunctionLiteral)) >>)

\* a variant of DateRollupData whose `date` may be left out
DateRollupData_optional_date ==
    ModelT("DateRollupData",
        Subclass(BaseRollupData.fields,
                 << TypeTag("date"), Default("date", OptionalT(DateValue), JNull) >>))

DateRollupData ==
    ModelT("DateRollupData",
        Subclass(BaseRollupData.fields,
                 << TypeTag("date"), Required("date", DateValue) >>))

NumberRollupData ==
    ModelT("NumberRollupData",
        Subclass(BaseRollupData.fields,
                 << TypeTag("number"), Required("number", FloatT) >>))

ArrayRollupData ==
    ModelT("ArrayRollupData",
        Subclass(BaseRollupData.fields, << TypeTag("array") >>))

IncompleteRollupData ==
    ModelT("IncompleteRollupData",
        Subclass(BaseRollupData.fields, << TypeTag("incomplete") >>))

UnsupportedRollupData ==
    ModelT("UnsupportedRollupData",
        Subclass(BaseRollupData.fields, << TypeTag("unsupported") >>))

RollupData ==
    UnionT(<< DateRollupData, NumberRollupData, ArrayRollupData,
              IncompleteRollupData, UnsupportedRollupData >>)

RollupProperty ==
    PropertyClass("RollupProperty", "rollup", << Required("rollup", RollupData) >>)

RichTextProperty ==
    PropertyClass("RichTextProperty", "rich_text",
                  << Required("rich_text", ListT(RichTextObject)) >>)

SelectProperty ==
    PropertyClass("SelectProperty", "select", << Required("select", SelectOption) >>)

StatusProperty ==
    PropertyClass("StatusProperty", "status", << Required("status", StatusOption) >>)

TitleProperty ==
    PropertyClass("TitleProperty", "title", << Required("title", ListT(RichTextObject)) >>)

URLProperty ==
    PropertyClass("URLProperty", "url", << Required("url", HttpUrlT) >>)

UniqueIDData ==
    ModelT("UniqueIDData",
        << Required("number", IntT),
           Default("prefix", OptionalT(StrT), JNull) >>)

UniqueIDProperty ==
    PropertyClass("UniqueIDProperty", "unique_id",
                  << Required("unique_id", UniqueIDData) >>)

VerificationData ==
    ModelT("VerificationData",
        << Required("state", LiteralT(VerificationStateLiteral)),
           Default("verified_by", OptionalT(UserObject), JNull),
           Default("date", OptionalT(DateValue), JNull) >>)

VerificationProperty ==
    PropertyClass("VerificationProperty", "verification",
                  << Required("verification", VerificationData) >>)

PageProperty ==
    UnionT(<< CheckboxProperty, CreatedByProperty, CreatedTimeProperty,
              DateProperty, EmailProperty, FilesProperty,
              LastEditedByProperty, LastEditedTimeProperty,
              MultiSelectProperty, NumberProperty, PeopleProperty,
              PhoneNumberProperty, RichTextProperty, SelectProperty,
              StatusProperty, TitleProperty, URLProperty, FormulaProperty,
              RelationProperty, RollupProperty, UniqueIDProperty,
              VerificationProperty >>)

(***************************************************************************)
(* The pagination envelope of api/base.py.                                 *)
(***************************************************************************)
NotionPaginatedDataTypeLiteral ==
    {"block", "comment", "database", "page", "page_or_database",
     "property_item", "user"}

\* a variant of NotionPaginatedData whose next_cursor is a required string
NotionPaginatedData_cursor_required(TResult) ==
    ModelT("NotionPaginatedData",
        << Default("object", LiteralT({"list"}), JStr("list")),
           Required("results", ListT(TResult)),
           Required("next_cursor", StrT),
           Required("has_more", BoolT),
           Required("type", LiteralT(NotionPaginatedDataTypeLiteral)),
           Required("request_id", UUIDT),
           Default("next_url", OptionalT(StrT), JNull) >>)

\* NotionPaginatedData[TResult]
NotionPaginatedData(TResult) ==
    ModelT("NotionPaginatedData",
        << Default("object", LiteralT({"list"}), JStr("list")),
           Required("results", ListT(TResult)),
           Default("next_cursor", OptionalT(StrT), JNull),
           Required("has_more", BoolT),
           Required("type", LiteralT(NotionPaginatedDataTypeLiteral)),
           Required("request_id", UUIDT),
           Default("next_url", OptionalT(StrT), JNull) >>)

\* the envelope over page properties
PropertyPage == NotionPaginatedData(PageProperty)

(***************************************************************************)
(* Keyword arguments and raw objects.  An argument that is not passed, or  *)
(* a key that is not present, is Omitted.                                  *)
(***************************************************************************)
Omitted == [k |-> "omitted"]

\* the dict of the pairs <<name, value>> whose value is passed
Obj(pairs) ==
    LET present == {i \in 1..Len(pairs) : pairs[i][2].k # "omitted"}
    IN  JObj([name \in {pairs[i][1] : i \in present} |->
                pairs[CHOOSE i \in present : pairs[i][1] = name][2]])

\* a parameter's value: the argument, or the signature's default
Arg(value, default) == IF value.k = "omitted" THEN default ELSE value

(***************************************************************************)
(* Factories of ..block and .common, which the catalogue's factories call  *)
(* and whose code is not part of the sources at hand.                      *)
(***************************************************************************)
\* RichTextObjectFactory.new_text(content): one plain "text" span
RichTextObjectFactory_new_text(content) ==
    ValidateModel(RichTextObject,
        Obj(<< <<"type", JStr("text")>>,
               <<"text", Obj(<< <<"content", content>> >>)>> >>))

\* SelectOption.create(name, color)
SelectOption_create(name, color) ==
    ValidateModel(SelectOption, Obj(<< <<"name", name>>, <<"color", color>> >>))

\* StatusOption.create(name, color)
StatusOption_create(name, color) ==
    ValidateModel(StatusOption, Obj(<< <<"name", name>>, <<"color", color>> >>))

\* StatusOption.refer(name)
StatusOption_refer(name) ==
    ValidateModel(StatusOption, Obj(<< <<"name", name>> >>))

(***************************************************************************)
(* The factories of page_property.py.  An exception raised while the       *)
(* argument of cls(...) is built propagates: cls(...) is not called.       *)
(***************************************************************************)
\* a variant of DateProperty.new that refuses an end before the start
DateProperty_new_ordered(start, end, time_zone) ==
    LET value == ValidateModel(DateValue,
                    Obj(<< <<"start", start>>,
                           <<"end", Arg(end, JNull)>>,
                           <<"time_zone", Arg(time_zone, JNull)>> >>))
    IN  IF ~value.ok THEN value
        ELSE IF value.v.f.end # JNull /\ value.v.f.end.t < value.v.f.start.t
        THEN Err("invariant_violation")
        ELSE ValidateModel(DateProperty, Obj(<< <<"date", value.v>> >>))

\* DateProperty.new(start, end=None, time_zone=None)
DateProperty_new(start, end, time_zone) ==
    LET value == ValidateModel(DateValue,
                    Obj(<< <<"start", start>>,
                           <<"end", Arg(end, JNull)>>,
                           <<"time_zone", Arg(time_zone, JNull)>> >>))
    IN  IF ~value.ok THEN value
        ELSE ValidateModel(DateProperty, Obj(<< <<"date", value.v>> >>))

\* RelationProperty.create(relation)
RelationProperty_create(relation) ==
    LET refs == [i \in 1..Len(relation) |->
                    ValidateModel(PageReference, Obj(<< <<"id", relation[i]>> >>))]
        bad == {i \in 1..Len(relation) : ~refs[i].ok}
    IN  IF bad # {} THEN refs[CHOOSE i \in bad : \A j \in bad : i <= j]
        ELSE ValidateModel(RelationProperty,
                Obj(<< <<"relation", JArr([i \in 1..Len(relation) |-> refs[i].v])>> >>))

\* SelectProperty.create(name, color=None)
SelectProperty_create(name, color) ==
    LET option == SelectOption_create(name, Arg(color, JNull))
    IN  IF ~option.ok THEN option
        ELSE ValidateModel(SelectProperty, Obj(<< <<"select", option.v>> >>))

\* StatusProperty.create(name, color="default")
StatusProperty_create(name, color) ==
    LET option == StatusOption_create(name, Arg(color, JStr("default")))
    IN  IF ~option.ok THEN option
        ELSE ValidateModel(StatusProperty, Obj(<< <<"status", option.v>> >>))

\* StatusProperty.refer(name)
StatusProperty_refer(name) ==
    LET option == StatusOption_refer(name)
    IN  IF ~option.ok THEN option
        ELSE ValidateModel(StatusProperty, Obj(<< <<"status", option.v>> >>))

\* a variant of TitleProperty.new that passes the string as the span
TitleProperty_new_bare(text) ==
    ValidateModel(TitleProperty, Obj(<< <<"title", JArr(<< text >>)>> >>))

\* TitleProperty.new(text)
TitleProperty_new(text) ==
    LET span == RichTextObjectFactory_new_text(text)
    IN  IF ~span.ok THEN span
        ELSE ValidateModel(TitleProperty, Obj(<< <<"title", JArr(<< span.v >>)>> >>))

(***************************************************************************)
(* The inputs the operations are applied to.                               *)
(***************************************************************************)
T1 == JStr("1970-01-01T00:00:01Z")
T1Offset == JStr("1970-01-01T00:00:01+00:00")
T2 == JStr("1970-01-01T00:00:02Z")
T3 == JStr("1970-01-01T00:00:03Z")
T2Naive == JStr("1970-01-01T00:00:02")
Id1 == JStr("0e5235bf-86aa-4efb-93aa-772cce7eab71")
Id1Hex == JStr("0e5235bf86aa4efb93aa772cce7eab71")
Id2 == JStr("6f9619ff-8b86-4011-b42d-00c04fc964ff")

\* raw date values: a point, a range, a range that ends before it starts,
\* an explicit null end; and one without its start
RawDates ==
    { Obj(<< <<"start", T1>> >>),
      Obj(<< <<"start", T1Offset>>, <<"end", T2>>, <<"time_zone", JStr("UTC")>> >>),
      Obj(<< <<"start", T3>>, <<"end", T1>> >>),
      Obj(<< <<"start", T2Naive>>, <<"end", JNull>> >>),
      Obj(<< <<"end", T2>> >>) }

RawUsers ==
    { Obj(<< <<"object", JStr("user")>>, <<"id", Id1>> >>),
      Obj(<< <<"id", Id1Hex>> >>),
      Obj(<< <<"object", JStr("user")>> >>) }

RawOptions ==
    { Obj(<< <<"id", JStr("o1")>>, <<"name", JStr("Done")>>, <<"color", JStr("blue")>> >>),
      Obj(<< <<"name", JStr("Todo")>> >>),
      Obj(<< <<"name", JStr("Todo")>>, <<"color", JStr("mauve")>> >>) }

RawSpans ==
    { Obj(<< <<"type", JStr("text")>>, <<"text", Obj(<< <<"content", JStr("Hello")>> >>)>> >>),
      Obj(<< <<"text", Obj(<< <<"content", JStr("Hi")>> >>)>> >>),
      Obj(<< <<"type", JStr("text")>> >>) }

RawFiles ==
    { Obj(<< <<"name", JStr("a.png")>>,
             <<"external", Obj(<< <<"url", JStr("http://example.com")>> >>)>> >>),
      Obj(<< <<"name", JStr("b.png")>> >>),
      Obj(<< <<"external", JNull>> >>) }

RawReferences ==
    { Obj(<< <<"id", Id1>> >>), Obj(<< <<"id", Id1Hex>> >>),
      Obj(<< <<"id", Id2>> >>), Obj(<< <<"id", JStr("not-a-uuid")>> >>) }

\* the lists of at most two items of a set
Lists(S) ==
    {JArr(<<>>)} \cup {JArr(<<a>>) : a \in S}
                 \cup {JArr(<<a, b>>) : a \in S, b \in S}

RawFormulas ==
    { Obj(<< <<"type", JStr("boolean")>>, <<"boolean", JBool(TRUE)>> >>),
      Obj(<< <<"type", JStr("boolean")>>, <<"number", JNum(35)>> >>),
      Obj(<< <<"type", JStr("number")>>, <<"number", JNum(35)>> >>),
      Obj(<< <<"type", JStr("number")>>, <<"boolean", JBool(TRUE)>>,
             <<"number", JNum(70)>> >>),
      Obj(<< <<"type", JStr("string")>>, <<"string", JStr("s")>> >>),
      Obj(<< <<"type", JStr("string")>>, <<"string", JNum(35)>> >>),
      Obj(<< <<"type", JStr("array")>>, <<"number", JNum(35)>> >>),
      Obj(<< <<"number", JNum(35)>> >>) }
    \cup { Obj(<< <<"type", JStr("date")>>, <<"date", d>> >>) : d \in RawDates }
    \cup { Obj(<< <<"type", JStr("date")>>, <<"number", JNum(35)>> >>) }

RawRollups ==
    { Obj(<< <<"type", JStr(t)>>, <<"number", n>>, <<"function", f>> >>) :
        t \in {"number", "date", "array", "incomplete", "unsupported",
               "boolean", "formula", "rollup"},
        n \in {JNum(35), Omitted},
        f \in {JStr("sum"), JStr("median"), Omitted} }
    \cup { Obj(<< <<"type", JStr(t)>>, <<"date", d>>, <<"function", JStr("count")>> >>) :
             t \in {"date", "number"}, d \in RawDates }
    \cup { Obj(<< <<"number", JNum(35)>>, <<"function", JStr("sum")>> >>) }

RawUniqueIDs ==
    { Obj(<< <<"number", JNum(70)>>, <<"prefix", JStr("TASK")>> >>),
      Obj(<< <<"number", JStr("7")>> >>),
      Obj(<< <<"number", JNum(35)>> >>),
      Obj(<< <<"prefix", JStr("TASK")>> >>) }

RawVerifications ==
    { Obj(<< <<"state", JStr("unverified")>> >>),
      Obj(<< <<"state", JStr("expired?")>> >>) }
    \cup { Obj(<< <<"state", JStr("verified")>>, <<"verified_by", u>>, <<"date", d>> >>) :
             u \in RawUsers, d \in RawDates }

\* what a raw property may carry under a payload key: for each key, values
\* of the declared shape and values that are not
Payloads(key) ==
    CASE key = "checkbox" ->
            {JBool(TRUE), JBool(FALSE), JStr("not-a-bool"), JStr("yes"),
             JStr("off"), JNum(10), JNum(35), JNull}
      [] key \in {"created_by", "last_edited_by"} -> RawUsers \cup {JStr("someone")}
      [] key \in {"created_time", "last_edited_time"} ->
            {T1, T1Offset, T2Naive, JStr("yesterday"), JNum(20), JNull}
      [] key = "date" -> RawDates \cup {JNull, T1}
      [] key = "email" ->
            {JStr("a@example.com"), JStr("a@EXAMPLE.COM"), JStr("nobody"), JNum(10)}
      [] key = "files" -> Lists(RawFiles) \cup {JNull}
      [] key = "formula" -> RawFormulas \cup {JBool(TRUE)}
      [] key = "multi_select" -> Lists(RawOptions)
      [] key = "number" -> {JNum(35), JNum(0), JNum(-70), JStr("3.5"), JStr("many"), JNull}
      [] key = "people" -> Lists(RawUsers)
      [] key = "phone_number" -> {JStr("415-867-5309"), JNull, JNum(70)}
      [] key = "relation" -> Lists(RawReferences) \cup {Obj(<< <<"id", Id1>> >>)}
      [] key = "rollup" -> RawRollups \cup {JNum(35)}
      [] key \in {"rich_text", "title"} -> Lists(RawSpans) \cup {JStr("Hello")}
      [] key \in {"select", "status"} -> RawOptions \cup {JStr("Done")}
      [] key = "url" ->
            {JStr("http://example.com"), JStr("http://example.com/"),
             JStr("https://notion.so/p"), JStr("not a url")}
      [] key = "unique_id" -> RawUniqueIDs
      [] key = "verification" -> RawVerifications

\* a raw property object: {"type": type, "id": id, key: payload,
\* "has_more": more, "request_id": extra}; "request_id" is a key no property
\* declares
RawProperty(type, id, key, payload, more, extra) ==
    Obj(<< <<"type", type>>, <<"id", id>>, <<key, payload>>,
           <<"has_more", more>>, <<"request_id", extra>> >>)

\* raw properties whose payload sits under the key their tag names
MatchedRaws ==
    UNION { { RawProperty(JStr(tag), id, tag, payload, Omitted, extra) :
                id \in {Omitted, JStr("prop1")},
                payload \in Payloads(tag) \cup {Omitted},
                extra \in {Omitted, Id1} } :
            tag \in PagePropertyTypeLiteral }
    \cup { RawProperty(JStr("relation"), Omitted, "relation", payload, more, Omitted) :
             payload \in Payloads("relation"), more \in {JBool(TRUE), JStr("no"), JNull} }
    \cup { RawProperty(JStr("checkbox"), id, "checkbox", JBool(TRUE), Omitted, Omitted) :
             id \in {JNull, JNum(70)} }

\* raw properties whose tag is not the payload's key, is unknown, is no
\* string, or is missing
CrossedRaws ==
    { RawProperty(type, Omitted, key, payload, Omitted, Omitted) :
        type \in {JStr(tag) : tag \in PagePropertyTypeLiteral \cup
                     {"mystery_kind", "Checkbox", "boolean", "array"}}
                 \cup {Omitted, JNull, JNum(10)},
        key \in {"checkbox", "number", "date", "rollup"},
        payload \in {JBool(TRUE), JNum(35), Obj(<< <<"start", T1>> >>),
                     Obj(<< <<"type", JStr("number")>>, <<"number", JNum(35)>>,
                            <<"function", JStr("sum")>> >>)} }
    \cup { RawProperty(JStr("mystery_kind"), Omitted, "id", Omitted, Omitted, Omitted) }

RawProps == MatchedRaws \cup CrossedRaws

\* the sequences over S of length at most n
SeqsUpTo(S, n) == UNION { [1..m -> S] : m \in 0..n }

\* every class a caller can construct directly, and the one of a name
Classes == PageProperty.members \o FormulaData.members \o RollupData.members
ClassNamed(cls) == Classes[CHOOSE i \in 1..Len(Classes) : Classes[i].cls = cls]
PropertyClasses == {PageProperty.members[i].cls : i \in 1..Len(PageProperty.members)}
FormulaClasses == {FormulaData.members[i].cls : i \in 1..Len(FormulaData.members)}
RollupClasses == {RollupData.members[i].cls : i \in 1..Len(RollupData.members)}

\* cls(**kwargs) of a property class: its payload, and `type` not passed,
\* passed as the class's tag, or passed as another class's tag
PropertyKwargs(member) ==
    { RawProperty(type, Omitted, TagOf(member), payload, Omitted, Omitted) :
        type \in {Omitted, JStr(TagOf(member)),
                  JStr(IF TagOf(member) = "date" THEN "checkbox" ELSE "date")},
        payload \in Payloads(TagOf(member)) }

ConstructInputs ==
    UNION { { [kind |-> "construct", cls |-> PageProperty.members[i].cls, raw |-> r] :
                r \in PropertyKwargs(PageProperty.members[i]) } :
            i \in 1..Len(PageProperty.members) }
    \cup { [kind |-> "construct", cls |-> cls, raw |-> r] :
             cls \in FormulaClasses, r \in RawFormulas }
    \cup { [kind |-> "construct", cls |-> cls, raw |-> r] :
             cls \in RollupClasses, r \in RawRollups }

\* arguments for a datetime parameter: datetimes, a string, and a string
\* that is no timestamp
DatetimeArgs ==
    { PyDatetime(10, "utc"), PyDatetime(20, "utc"), PyDatetime(30, "utc"),
      T1Offset, JStr("tomorrow") }

FactoryInputs ==
    { [kind |-> "DateProperty.new", start |-> s, end |-> e, time_zone |-> z] :
        s \in DatetimeArgs, e \in DatetimeArgs \cup {Omitted, JNull},
        z \in {Omitted, JStr("UTC")} }
    \cup { [kind |-> "TitleProperty.new", text |-> t] :
             t \in {JStr("Hello"), JStr(""), JNum(35)} }
    \cup { [kind |-> k, name |-> n, color |-> c] :
             k \in {"SelectProperty.create", "StatusProperty.create"},
             n \in {JStr("Done"), JNull},
             c \in {Omitted, JNull, JStr("blue"), JStr("mauve")} }
    \cup { [kind |-> "StatusProperty.refer", name |-> n] : n \in {JStr("Done"), JNull} }
    \cup { [kind |-> "RelationProperty.create", relation |-> r] :
             r \in SeqsUpTo({PyUUID(1), PyUUID(2), Id1Hex, JStr("not-a-uuid")},
                            MaxRelation) }

\* the entries of a raw `results` list: two that decode and one that does not
PageElements ==
    { RawProperty(JStr("checkbox"), Omitted, "checkbox", JBool(TRUE), Omitted, Omitted),
      RawProperty(JStr("number"), JStr("prop1"), "number", JStr("3.5"), Omitted, Omitted),
      RawProperty(JStr("checkbox"), Omitted, "checkbox", JStr("not-a-bool"), Omitted, Omitted) }

\* raw pagination envelopes
RawPages ==
    { Obj(<< <<"object", JStr("list")>>, <<"results", JArr(r)>>,
             <<"next_cursor", c>>, <<"has_more", m>>, <<"type", JStr(t)>>,
             <<"request_id", q>> >>) :
        r \in SeqsUpTo(PageElements, MaxResults),
        c \in {Omitted, JNull, JStr("LYxaUO")},
        m \in {JBool(TRUE), JBool(FALSE), Omitted},
        t \in {"property_item", "widget"},
        q \in {Id1, JStr("req-1")} }

Inputs ==
    { [kind |-> "decode", raw |-> r] : r \in RawProps }
    \cup ConstructInputs \cup FactoryInputs
    \cup { [kind |-> "page", raw |-> r] : r \in RawPages }

\* the names and values a caller assigns
AssignNames == {"id", "type"}
AssignValues == {JStr("date"), JNull}

(***************************************************************************)
(* The state machine: one operation produces an object (or fails); the     *)
(* caller may then encode the object, decode the encoding again, and       *)
(* assign to the object's fields.                                          *)
(***************************************************************************)
NoObj == [k |-> "noobj"]
NoRes == [ok |-> FALSE, err |-> "not_run"]

Init ==
    /\ input \in Inputs
    /\ op = "init"
    /\ res = NoRes
    /\ held = NoObj
    /\ wire = JNull
    /\ back = NoRes
    /\ mutated = FALSE

\* the first operation returns r: on success the caller holds the object,
\* on failure the exception leaves it with none
Returns(name, r) ==
    /\ op' = name
    /\ res' = r
    /\ held' = IF r.ok THEN r.v ELSE NoObj
    /\ UNCHANGED <<input, wire, back, mutated>>

\* decoding a raw property through the PageProperty union
Decode ==
    /\ op = "init" /\ input.kind = "decode"
    /\ Returns("decode", ValidateUnion(PageProperty, input.raw))

\* cls(**kwargs)
Construct ==
    /\ op = "init" /\ input.kind = "construct"
    /\ Returns("construct", ValidateModel(ClassNamed(input.cls), input.raw))

CallDatePropertyNew ==
    /\ op = "init" /\ input.kind = "DateProperty.new"
    /\ Returns(input.kind, DateProperty_new(input.start, input.end, input.time_zone))

CallTitlePropertyNew ==
    /\ op = "init" /\ input.kind = "TitleProperty.new"
    /\ Returns(input.kind, TitleProperty_new(input.text))

CallSelectPropertyCreate ==
    /\ op = "init" /\ input.kind = "SelectProperty.create"
    /\ Returns(input.kind, SelectProperty_create(input.name, input.color))

CallStatusPropertyCreate ==
    /\ op = "init" /\ input.kind = "StatusProperty.create"
    /\ Returns(input.kind, StatusProperty_create(input.name, input.color))

CallStatusPropertyRefer ==
    /\ op = "init" /\ input.kind = "StatusProperty.refer"
    /\ Returns(input.kind, StatusProperty_refer(input.name))

CallRelationPropertyCreate ==
    /\ op = "init" /\ input.kind = "RelationProperty.create"
    /\ Returns(input.kind, RelationProperty_create(input.relation))

\* decoding a raw envelope as NotionPaginatedData[PageProperty]
DecodePage ==
    /\ op = "init" /\ input.kind = "page"
    /\ Returns("page", ValidateModel(PropertyPage, input.raw))

\* the schema an object of class cls is decoded through
DecoderOf(cls) ==
    CASE cls \in PropertyClasses -> PageProperty
      [] cls \in FormulaClasses -> FormulaData
      [] cls \in RollupClasses -> RollupData
      [] cls = "NotionPaginatedData" -> PropertyPage

\* a variant of Encode that converts the object's own fields while dumping
Encode_in_place ==
    /\ held # NoObj /\ op # "encode"
    /\ wire' = ModelDump(held)
    /\ held' = [held EXCEPT !.f = [name \in DOMAIN @ |-> ModelDump(@[name])]]
    /\ op' = "encode"
    /\ UNCHANGED <<input, res, back, mutated>>

\* encoding the held object
Encode ==
    /\ held # NoObj /\ op # "encode"
    /\ wire' = ModelDump(held)
    /\ op' = "encode"
    /\ UNCHANGED <<input, res, held, back, mutated>>

\* decoding what was just encoded
Redecode ==
    /\ op = "encode"
    /\ back' = Validate(DecoderOf(held.cls), wire)
    /\ op' = "redecode"
    /\ UNCHANGED <<input, res, held, wire, mutated>>

\* obj.name = value: no class sets frozen or validate_assignment, so the
\* field takes the value as it is
SetAttr ==
    /\ held # NoObj
    /\ \E name \in AssignNames \cap DOMAIN held.f, value \in AssignValues :
          held' = [held EXCEPT !.f[name] = value]
    /\ op' = "setattr"
    /\ mutated' = TRUE
    /\ UNCHANGED <<input, res, wire, back>>

\* the field a class declares as a list: a plain Python list, which the
\* holder of the object can change in place
ListField(cls) ==
    CASE cls = "NotionPaginatedData" -> "results"
      [] cls = "RelationProperty" -> "relation"
      [] cls = "TitleProperty" -> "title"
      [] cls = "RichTextProperty" -> "rich_text"
      [] cls = "MultiSelectProperty" -> "multi_select"
      [] cls = "PeopleProperty" -> "people"
      [] cls = "FilesProperty" -> "files"
      [] OTHER -> "none"

\* obj.<list field>.pop(): the last entry leaves the object's own list
ListPop ==
    /\ held # NoObj
    /\ ListField(held.cls) # "none"
    /\ LET name == ListField(held.cls) IN
       /\ held.f[name].k = "arr" /\ Len(held.f[name].a) > 0
       /\ held' = [held EXCEPT !.f[name] =
                       JArr(SubSeq(@.a, 1, Len(@.a) - 1))]
    /\ op' = "listpop"
    /\ mutated' = TRUE
    /\ UNCHANGED <<input, res, wire, back>>

Next ==
    \/ Decode
    \/ Construct
    \/ CallDatePropertyNew
    \/ CallTitlePropertyNew
    \/ CallSelectPropertyCreate
    \/ CallStatusPropertyCreate
    \/ CallStatusPropertyRefer
    \/ CallRelationPropertyCreate
    \/ DecodePage
    \/ Encode
    \/ Redecode
    \/ SetAttr
    \/ ListPop

Spec == Init /\ [][Next]_vars

(***************************************************************************)
(* The error taxonomy: pydantic raises one ValidationError whose error     *)
(* type tells the cases apart.  An unknown discriminator value is          *)
(* union_tag_invalid; every other validation error is a shape mismatch.    *)
(***************************************************************************)
ErrorClass(err) ==
    CASE err = "union_tag_invalid" -> "UnknownVariant"
      [] err = "invariant_violation" -> "InvariantViolation"
      [] OTHER -> "ShapeMismatch"

Fails(r, class) == ~r.ok /\ ErrorClass(r.err) = class

(***************************************************************************)
(* The fixed tag of every variant, as the class bodies declare them.       *)
(***************************************************************************)
PropertyTags ==
    [ CheckboxProperty |-> "checkbox", CreatedByProperty |-> "created_by",
      CreatedTimeProperty |-> "created_time", DateProperty |-> "date",
      EmailProperty |-> "email", FilesProperty |-> "files",
      FormulaProperty |-> "formula", LastEditedByProperty |-> "last_edited_by",
      LastEditedTimeProperty |-> "last_edited_time",
      MultiSelectProperty |-> "multi_select", NumberProperty |-> "number",
      PeopleProperty |-> "people", PhoneNumberProperty |-> "phone_number",
      RelationProperty |-> "relation", RollupProperty |-> "rollup",
      RichTextProperty |-> "rich_text", SelectProperty |-> "select",
      StatusProperty |-> "status", TitleProperty |-> "title",
      URLProperty |-> "url", UniqueIDProperty |-> "unique_id",
      VerificationProperty |-> "verification" ]
FormulaTags ==
    [ BooleanFormulaData |-> "boolean", DateFormulaData |-> "date",
      NumberFormulaData |-> "number", StringFormulaData |-> "string" ]
RollupTags ==
    [ DateRollupData |-> "date", NumberRollupData |-> "number",
      ArrayRollupData |-> "array", IncompleteRollupData |-> "incomplete",
      UnsupportedRollupData |-> "unsupported" ]
FixedTag == PropertyTags @@ FormulaTags @@ RollupTags
RegisteredTags == {PropertyTags[c] : c \in DOMAIN PropertyTags}

\* the raw `type` of the input is the string t
RawTypeIs(t) ==
    Has(input.raw, "type") /\ Get(input.raw, "type") = JStr(t)
\* the raw `id` of the input, if any, is one a property accepts
RawIdFits ==
    ~Has(input.raw, "id") \/ Get(input.raw, "id").k \in {"str", "null"}

UnknownTagRejected ==
    op = "decode" =>
        /\ (Has(input.raw, "type")
              /\ ~(\E t \in RegisteredTags : RawTypeIs(t)))
             => (Fails(res, "UnknownVariant") /\ held = NoObj)
        /\ res.ok => RawTypeIs(PropertyTags[res.v.cls])

\* {"type": "mystery_kind", "checkbox": true} was refused as an unknown variant
UnknownTagWitness ==
    /\ op = "decode" /\ RawTypeIs("mystery_kind")
    /\ Has(input.raw, "checkbox") /\ Get(input.raw, "checkbox") = JBool(TRUE)
    /\ Fails(res, "UnknownVariant") /\ held = NoObj

(***************************************************************************)
(* C3  Shape mismatch.  As claimed: when the tag is "checkbox" and the     *)
(* payload is absent or is not a JSON boolean, decoding fails with         *)
(* ShapeMismatch, nothing being coerced.                                   *)
(***************************************************************************)
WrongShapeNeverCoerced ==
    (op = "decode" /\ RawTypeIs("checkbox")
       /\ (~Has(input.raw, "checkbox") \/ Get(input.raw, "checkbox").k # "bool"))
        => Fails(res, "ShapeMismatch")

\* what lax validation reads as a bool
ReadsAsBool(x) ==
    \/ x.k = "bool"
    \/ x.k = "num" /\ x.n \in {0, 10}
    \/ x.k = "str" /\ x.s \in {"true", "yes", "on", "1", "false", "no", "off", "0"}
ReadsAsTrue(x) ==
    \/ x = JBool(TRUE)
    \/ x = JNum(10)
    \/ x.k = "str" /\ x.s \in {"true", "yes", "on", "1"}

(***************************************************************************)
(* C3, amended.  When the tag is registered and the variant's required     *)
(* payload is absent, or (checkbox) holds a value lax validation cannot    *)
(* read as a bool, decoding fails with ShapeMismatch and leaves no object; *)
(* a decode that succeeds never gives another variant than the tag's; a    *)
(* checkbox payload lax validation can read ("yes", 1) is coerced.         *)
(***************************************************************************)
ShapeMismatchRejected ==
    (op = "decode" /\ \E t \in RegisteredTags : RawTypeIs(t)) =>
        LET tag == Get(input.raw, "type").s IN
        /\ (tag # "phone_number" /\ ~Has(input.raw, tag))
             => (Fails(res, "ShapeMismatch") /\ held = NoObj)
        /\ (tag = "checkbox" /\ Has(input.raw, tag)
              /\ ~ReadsAsBool(Get(input.raw, tag)))
             => (Fails(res, "ShapeMismatch") /\ held = NoObj)
        /\ (tag = "checkbox" /\ Has(input.raw, tag)
              /\ ReadsAsBool(Get(input.raw, tag)) /\ RawIdFits)
             => (res.ok /\ res.v.f.checkbox = JBool(ReadsAsTrue(Get(input.raw, tag))))
        /\ res.ok => PropertyTags[res.v.cls] = tag

\* {"type": "checkbox", "checkbox": "not-a-bool"} was refused
ShapeMismatchWitness ==
    /\ op = "decode" /\ RawTypeIs("checkbox")
    /\ Has(input.raw, "checkbox")
    /\ Get(input.raw, "checkbox") = JStr("not-a-bool")
    /\ Fails(res, "ShapeMismatch") /\ res.err = "bool_parsing" /\ held = NoObj

(***************************************************************************)
(* C4  All-or-nothing pages.  Decoding an envelope whose `results` holds   *)
(* an entry that does not decode fails as a whole and leaves no            *)
(* collection; a decoded envelope holds every entry of the input,          *)
(* decoded, in the input's order.                                          *)
(***************************************************************************)
PageAllOrNothing ==
    (op = "page" /\ Has(input.raw, "results")) =>
        LET entries == Get(input.raw, "results").a IN
        /\ (\E i \in 1..Len(entries) : ~ValidateUnion(PageProperty, entries[i]).ok)
             => (~res.ok /\ held = NoObj)
        /\ res.ok =>
             /\ Len(res.v.f.results.a) = Len(entries)
             /\ \A i \in 1..Len(entries) :
                   Ok(res.v.f.results.a[i]) = ValidateUnion(PageProperty, entries[i])

\* results = [valid, valid, malformed] in an envelope that is otherwise
\* well-formed: the decode failed and no collection was returned
PageAllOrNothingWitness ==
    /\ op = "page" /\ Has(input.raw, "results")
    /\ Len(Get(input.raw, "results").a) = 3
    /\ ValidateUnion(PageProperty, Get(input.raw, "results").a[1]).ok
    /\ ValidateUnion(PageProperty, Get(input.raw, "results").a[2]).ok
    /\ ~ValidateUnion(PageProperty, Get(input.raw, "results").a[3]).ok
    /\ Has(input.raw, "has_more") /\ Get(input.raw, "type") = JStr("property_item")
    /\ Get(input.raw, "request_id") = Id1
    /\ ~res.ok /\ held = NoObj

(***************************************************************************)
(* C5  As claimed: in every decoded envelope next_cursor is non-null       *)
(* whenever has_more is true.                                              *)
(***************************************************************************)
CursorPresentWhenMore ==
    (op = "page" /\ res.ok /\ res.v.f.has_more = JBool(TRUE))
        => res.v.f.next_cursor # JNull

\* an envelope every field of which is well-formed, next_cursor aside
WellFormedPage ==
    /\ Has(input.raw, "results")
    /\ \A i \in 1..Len(Get(input.raw, "results").a) :
          ValidateUnion(PageProperty, Get(input.raw, "results").a[i]).ok
    /\ Has(input.raw, "has_more") /\ Get(input.raw, "has_more").k = "bool"
    /\ Get(input.raw, "type") = JStr("property_item")
    /\ Get(input.raw, "request_id") = Id1

(***************************************************************************)
(* C5, amended.  The envelope does not tie next_cursor to has_more: an     *)
(* envelope that is otherwise well-formed decodes whether next_cursor is   *)
(* absent, null or a string, and the decoded envelope holds has_more and   *)
(* next_cursor as given (null when absent), has_more true with a null      *)
(* next_cursor included.                                                   *)
(***************************************************************************)
CursorIndependentOfMore ==
    op = "page" =>
        /\ WellFormedPage => res.ok
        /\ res.ok =>
             /\ res.v.f.has_more = Get(input.raw, "has_more")
             /\ res.v.f.next_cursor =
                   IF Has(input.raw, "next_cursor")
                   THEN Get(input.raw, "next_cursor") ELSE JNull

\* a decoded envelope with has_more true and no cursor
CursorIndependentWitness ==
    /\ op = "page" /\ res.ok
    /\ Len(res.v.f.results.a) > 0
    /\ res.v.f.has_more = JBool(TRUE) /\ res.v.f.next_cursor = JNull

(***************************************************************************)
(* C6  As claimed: DateProperty.new with an `end` earlier than `start`     *)
(* fails with InvariantViolation and returns no object.                    *)
(***************************************************************************)
EndBeforeStartRejected ==
    (op = "DateProperty.new"
       /\ input.start.k = "datetime" /\ input.end.k = "datetime"
       /\ input.end.t < input.start.t)
        => (Fails(res, "InvariantViolation") /\ held = NoObj)

(***************************************************************************)
(* C6, amended.  DateProperty.new checks no order: called with a datetime  *)
(* start and an end that is a datetime or None, it returns a DateProperty  *)
(* whose date holds exactly the start, end and time_zone given, also when  *)
(* end is earlier than start; it fails only when start or end does not     *)
(* validate as a datetime, and then with a shape mismatch.                 *)
(***************************************************************************)
DateNewKeepsArguments ==
    op = "DateProperty.new" =>
        /\ (input.start.k = "datetime"
              /\ Arg(input.end, JNull).k \in {"datetime", "null"})
             => /\ res.ok /\ res.v.cls = "DateProperty"
                /\ res.v.f.date.f.start = input.start
                /\ res.v.f.date.f.end = Arg(input.end, JNull)
                /\ res.v.f.date.f.time_zone = Arg(input.time_zone, JNull)
        /\ ~res.ok =>
             /\ \/ ~ValidateDatetime(input.start).ok
                \/ ~Validate(OptionalT(DatetimeT), Arg(input.end, JNull)).ok
             /\ Fails(res, "ShapeMismatch")

\* DateProperty.new returned a date whose end is before its start
DateNewWitness ==
    /\ op = "DateProperty.new" /\ res.ok
    /\ input.end.k = "datetime" /\ input.start.k = "datetime"
    /\ res.v.f.date.f.end.t < res.v.f.date.f.start.t

(***************************************************************************)
(* C7  Nested unions.  Under the outer tag "rollup" or "formula" the       *)
(* inner variant is the one the inner `type` names: a decoded property     *)
(* holds the inner variant of that tag; inner "number" with number 3.5     *)
(* and function "sum" gives a rollup holding the number case with 3.5;     *)
(* inner "date" without a `date` payload fails with ShapeMismatch and      *)
(* gives no other inner variant.                                           *)
(***************************************************************************)
NestedDispatch ==
    (op = "decode" /\ (RawTypeIs("rollup") \/ RawTypeIs("formula"))) =>
        LET outer == Get(input.raw, "type").s IN
        (Has(input.raw, outer) /\ Has(Get(input.raw, outer), "type")) =>
            LET inner == Get(input.raw, outer)
                innerTag == Get(inner, "type")
            IN
            /\ res.ok => JStr(FixedTag[res.v.f[outer].cls]) = innerTag
            /\ (outer = "rollup" /\ innerTag = JStr("number")
                  /\ Has(inner, "number") /\ Get(inner, "number") = JNum(35)
                  /\ Has(inner, "function") /\ Get(inner, "function") = JStr("sum"))
                 => /\ res.ok
                    /\ res.v.f.rollup.cls = "NumberRollupData"
                    /\ res.v.f.rollup.f.number = JNum(35)
            /\ (innerTag = JStr("date") /\ ~Has(inner, "date"))
                 => (Fails(res, "ShapeMismatch") /\ held = NoObj)

\* the rollup {type: number, number: 3.5, function: sum} was decoded
NestedDispatchWitness ==
    /\ op = "decode" /\ RawTypeIs("rollup") /\ res.ok
    /\ Get(Get(input.raw, "rollup"), "type") = JStr("number")
    /\ res.v.f.rollup.cls = "NumberRollupData"
    /\ res.v.f.rollup.f.number = JNum(35)
    /\ res.v.f.rollup.f.function = JStr("sum")

(***************************************************************************)
(* C8  Factories.  The raw JSON equivalent to a factory call: the          *)
(* property's tag, and the payload written out from the arguments          *)
(* (datetimes and UUIDs as their strings, an argument not passed as the    *)
(* signature's default).                                                   *)
(***************************************************************************)
EquivalentRaw(call) ==
    CASE call.kind = "DateProperty.new" ->
            Obj(<< <<"type", JStr("date")>>,
                   <<"date", Obj(<< <<"start", ModelDump(call.start)>>,
                                    <<"end", ModelDump(Arg(call.end, JNull))>>,
                                    <<"time_zone", Arg(call.time_zone, JNull)>> >>)>> >>)
      [] call.kind = "TitleProperty.new" ->
            Obj(<< <<"type", JStr("title")>>,
                   <<"title", JArr(<< Obj(<< <<"type", JStr("text")>>,
                                             <<"text", Obj(<< <<"content", call.text>> >>)>> >>) >>)>> >>)
      [] call.kind = "SelectProperty.create" ->
            Obj(<< <<"type", JStr("select")>>,
                   <<"select", Obj(<< <<"name", call.name>>,
                                      <<"color", Arg(call.color, JNull)>> >>)>> >>)
      [] call.kind = "StatusProperty.create" ->
            Obj(<< <<"type", JStr("status")>>,
                   <<"status", Obj(<< <<"name", call.name>>,
                                      <<"color", Arg(call.color, JStr("default"))>> >>)>> >>)
      [] call.kind = "StatusProperty.refer" ->
            Obj(<< <<"type", JStr("status")>>,
                   <<"status", Obj(<< <<"name", call.name>> >>)>> >>)
      [] call.kind = "RelationProperty.create" ->
            Obj(<< <<"type", JStr("relation")>>,
                   <<"relation",
                     JArr([i \in 1..Len(call.relation) |->
                             Obj(<< <<"id", ModelDump(call.relation[i])>> >>)])>> >>)

FactoryCalls ==
    {"DateProperty.new", "TitleProperty.new", "SelectProperty.create",
     "StatusProperty.create", "StatusProperty.refer", "RelationProperty.create"}

\* the title property built by hand from the one span
\* {type: "text", text: {content: "Hello"}}
HelloTitle ==
    PyModel("TitleProperty",
        [ id |-> JNull, type |-> JStr("title"),
          title |-> JArr(<< PyModel("RichTextObject",
                               [ type |-> JStr("text"),
                                 text |-> PyModel("TextContent",
                                             [content |-> JStr("Hello")]) ]) >>) ])

TagsFixed(v) ==
    /\ v.f.type = JStr(FixedTag[v.cls])
    /\ Get(ModelDump(v), "type") = JStr(FixedTag[v.cls])
    /\ v.cls = "FormulaProperty" =>
          /\ v.f.formula.f.type = JStr(FormulaTags[v.f.formula.cls])
          /\ Get(Get(ModelDump(v), "formula"), "type") =
                JStr(FormulaTags[v.f.formula.cls])
    /\ v.cls = "RollupProperty" =>
          /\ v.f.rollup.f.type = JStr(RollupTags[v.f.rollup.cls])
          /\ Get(Get(ModelDump(v), "rollup"), "type") =
                JStr(RollupTags[v.f.rollup.cls])

==========================================================================
